---- MODULE Spec2Model ----
(***************************************************************************)
(* The two benchmark drivers of ligneous-gedcom:                           *)
(*   scripts/parser_benchmark.py      python-gedcom  vs  the Go parser     *)
(*   scripts/parser_benchmark_php.py  the Go parser  vs  php-gedcom        *)
(* Each is one sequential main(): preflight, build of the Go driver,       *)
(* corpus filtering, the per-file measurement loop, the report, cleanup.   *)
(* The environment (files on disk, the toolchain, the child processes and  *)
(* the in-process parser) is chosen nondeterministically from small sets.  *)
(*                                                                         *)
(* A Python str is a finite sequence of text pieces: concatenation is \o,  *)
(* the empty string is << >>, s[:n] is the first n pieces.                 *)
(***************************************************************************)
EXTENDS Integers, Sequences, FiniteSets, TLC

\* ------------------------------------------------------------ bounds
\* Most candidate files present on disk in a run of Spec / of SpecFaults.
MaxOnDisk == 3
MaxOnDiskFaults == 1

\* --------------------------------------------------- program constants
GEDCOM_FILES == <<"xavier.ged", "tree1.ged", "gracis.ged", "pres2020.ged", "royal92.ged">>
GO_PARSER_BINARY == "/tmp/go_parser_benchmark"
GO_PARSER_SOURCE == "/tmp/go_parser_benchmark.go"
PHP_BENCHMARK_SCRIPT == "/tmp/php_parser_benchmark.php"
\* subprocess.run(..., timeout=300)
RunnerTimeout == 300
\* result.stdout[:200]
OutputSampleLen == 200
\* check_php_version: major > 8 or (major == 8 and minor >= 3)
MinPhpMajor == 8
MinPhpMinor == 3

\* ------------------------------------------------------ Python values
\* A str value and None, as stored under a Result's 'error' key.
Str(s) == [type |-> "str", text |-> s]
None == [type |-> "NoneType", text |-> << >>]
\* s[:n]
Take(s, n) == SubSeq(s, 1, IF Len(s) < n THEN Len(s) ELSE n)

\* ------------------------------------------------------------- json
\* Standard output is a sequence of lexemes. An object is "{" k1 v1 ... kn vn "}",
\* the empty array is "[" "]"; anything else does not decode.
JsonLiterals ==
    [t \in {"true", "false"} |-> (t = "true")]
JsonNumbers ==
    (  "0" :> 0 @@ "1" :> 1 @@ "3" :> 3 @@ "5" :> 5 @@ "10" :> 10
    @@ "5000000" :> 5000000 @@ "10000000" :> 10000000 )
JsonStrings ==
    (  "\"\"" :> << >> @@ "\"parse error\"" :> <<"parse error">> )
IsJsonValue(t) ==
    t \in DOMAIN JsonLiterals \/ t \in DOMAIN JsonNumbers \/ t \in DOMAIN JsonStrings
JsonValue(t) ==
    IF t \in DOMAIN JsonLiterals THEN JsonLiterals[t]
    ELSE IF t \in DOMAIN JsonNumbers THEN JsonNumbers[t]
    ELSE Str(JsonStrings[t])
\* A decoded value that is not an object (a list): it has none of a Result's keys.
JsonArray == [json_type |-> "list"]
IsObjectText(toks) ==
    /\ Len(toks) >= 2
    /\ Len(toks) % 2 = 0
    /\ toks[1] = "{"
    /\ toks[Len(toks)] = "}"
    /\ \A j \in 1..((Len(toks) - 2) \div 2) : IsJsonValue(toks[2 * j + 1])
ObjectOf(toks) ==
    LET n == (Len(toks) - 2) \div 2
        keys == {toks[2 * j] : j \in 1..n}
        last(k) == CHOOSE j \in 1..n : toks[2 * j] = k /\ \A h \in (j + 1)..n : toks[2 * h] # k
    IN  [k \in keys |-> JsonValue(toks[2 * last(k) + 1])]
\* str(JSONDecodeError): the decoder's diagnostic, which quotes no input.
JSONDecodeError(toks) ==
    IF Len(toks) = 0 \/ toks[1] \notin {"{", "["}
    THEN <<"Expecting value: line 1 column 1 (char 0)">>
    ELSE <<"Expecting property name enclosed in double quotes: line 1 column 2 (char 1)">>
json_loads(toks) ==
    IF toks = <<"[", "]">> THEN [ok |-> TRUE, value |-> JsonArray]
    ELSE IF IsObjectText(toks) THEN [ok |-> TRUE, value |-> ObjectOf(toks)]
    ELSE [ok |-> FALSE, diag |-> JSONDecodeError(toks)]

\* value[key] on a decoded value: KeyError / TypeError when it cannot be read.
HasKey(value, key) == key \in DOMAIN value

\* ------------------------------------------------- the child processes
\* What one spawned child does: it exits with `returncode` after `seconds`, having
\* written `stdout` and `stderr`; or it cannot be launched at all (OSError).
\* A child that never exits is, to the runner, a child with seconds > RunnerTimeout.
Exit(code, out, err, secs) ==
    [kind |-> "exit", returncode |-> code, stdout |-> out, stderr |-> err, seconds |-> secs]
LaunchError ==
    [kind |-> "oserror", returncode |-> 0, stdout |-> << >>,
     stderr |-> <<"[Errno 2] No such file or directory">>, seconds |-> 0]

\* The JSON line the generated Go / PHP driver prints.
DriverSuccess(ms) ==
    <<"{", "success", "true",
      "duration_ms", IF ms = 0 THEN "0" ELSE IF ms = 5 THEN "5" ELSE "10",
      "duration_ns", IF ms = 0 THEN "0" ELSE IF ms = 5 THEN "5000000" ELSE "10000000",
      "error", "\"\"", "individuals", "3", "families", "1", "errors", "0", "}">>
DriverFailure ==
    <<"{", "success", "false", "duration_ms", "1", "duration_ns", "1",
      "error", "\"parse error\"", "}">>
LongGarbage == [i \in 1..(OutputSampleLen + 1) |-> "x"]

\* Children seen in an ordinary run.
TypicalChildren ==
    { Exit(0, DriverSuccess(5), << >>, 1),
      Exit(0, DriverSuccess(10), << >>, 1),
      Exit(0, << >>, << >>, RunnerTimeout + 1) }
\* Every child behaviour considered: the driver's other outcomes, and output
\* that is not the driver's.
AllChildren ==
    TypicalChildren \cup
    { Exit(1, << >>, <<"panic: boom">>, 1),
      Exit(0, DriverSuccess(0), << >>, 1),
      Exit(0, DriverFailure, << >>, 1),
      Exit(1, DriverFailure, << >>, 1),
      Exit(0, <<"o", "o", "p", "s">>, << >>, 1),
      Exit(0, LongGarbage, << >>, 1),
      Exit(0, <<"[", "]">>, << >>, 1),
      Exit(0, <<"{", "duration_ms", "5", "}">>, << >>, 1),
      Exit(0, <<"{", "success", "true", "}">>, << >>, 1),
      Exit(0, <<"{", "success", "true", "duration_ms", "5", "}">>, << >>, 1),
      Exit(0, <<"{", "success", "true", "duration_ms", "5", "individuals", "3", "}">>, << >>, 1),
      Exit(0, <<"{", "success", "false", "error", "\"\"", "}">>, << >>, 1),
      Exit(0, <<"{", "success", "false", "}">>, << >>, 1),
      LaunchError }

\* What one in-process parse does: it returns after `seconds`, raises, or never returns.
Parse(k, ms, msg, secs) ==
    [kind |-> k, duration_ms |-> ms, message |-> msg, seconds |-> secs]
TypicalParses ==
    { Parse("return", 5, << >>, 1),
      Parse("return", 10, << >>, 1),
      Parse("raise", 0, <<"Invalid GEDCOM line">>, 1) }
AllParses ==
    TypicalParses \cup
    { Parse("return", 0, << >>, 1),
      Parse("raise", 0, << >>, 1),
      Parse("raise", 0, <<"Invalid GEDCOM line">>, RunnerTimeout + 1),
      Parse("never", 0, << >>, RunnerTimeout + 1) }

\* ------------------------------------------------------- the runners
\* The failed Result every except-branch builds.
FailedResult(message) ==
    [success |-> FALSE, duration_ms |-> 0, duration_ns |-> 0, error |-> Str(message)]

\* benchmark_python_parser, once parse_file has returned or raised.
benchmark_python_parser(parse) ==
    IF parse.kind = "return"
    THEN [success |-> TRUE,
          duration_ms |-> parse.duration_ms,
          duration_ns |-> parse.duration_ms * 1000000,
          individuals |-> 3, families |-> 1, total_elements |-> 9,
          error |-> None]
    ELSE FailedResult(parse.message)

\* (mutant of NonZeroExitError: the fallback dropped)
NonZeroExitError_NoFallback(stderr) == stderr
\* result.stderr or 'Unknown error'
NonZeroExitError(stderr) ==
    IF Len(stderr) > 0 THEN stderr ELSE <<"Unknown error">>

\* f'JSON decode error: {e}'
GoDecodeError(diag, stdout) ==
    <<"JSON decode error: ">> \o diag

\* f'JSON decode error: {e}. Output: {result.stdout[:200]}'
PhpDecodeError(diag, stdout) ==
    <<"JSON decode error: ">> \o diag \o <<". Output: ">> \o Take(stdout, OutputSampleLen)

\* subprocess.run(..., timeout=300) raises TimeoutExpired, having killed the child.
TimedOut(child) == child.kind = "exit" /\ child.seconds > RunnerTimeout

\* The try block shared by benchmark_go_parser and benchmark_php_parser; `withSample`
\* tells the two decode-error branches apart.
SubprocessResult(child, withSample) ==
    IF child.kind = "oserror" THEN FailedResult(child.stderr)
    ELSE IF TimedOut(child) THEN FailedResult(<<"Timeout (exceeded 5 minutes)">>)
    ELSE IF child.returncode # 0 THEN FailedResult(NonZeroExitError(child.stderr))
    ELSE LET data == json_loads(child.stdout)
         IN  IF data.ok THEN data.value
             ELSE FailedResult(IF withSample
                               THEN PhpDecodeError(data.diag, child.stdout)
                               ELSE GoDecodeError(data.diag, child.stdout))

benchmark_go_parser(child) == SubprocessResult(child, FALSE)
benchmark_php_parser(child) == SubprocessResult(child, TRUE)

\* The early return when the executable / the script is not on disk.
GoBinaryNotFound == FailedResult(<<"Go parser binary not found">>)
PhpScriptNotFound == FailedResult(<<"PHP benchmark script not found">>)
\* main's stand-in when PHP is unavailable.
PhpNotAvailable == [success |-> FALSE, error |-> Str(<<"PHP 8.4+ not available">>)]

\* ----------------------------------------------------- report helpers
\* A duration or a mean is an exact fraction num/den of a millisecond.
Rat(n, d) == [num |-> n, den |-> d]
RoundHalfEven(n, d) ==
    LET q == n \div d
        r == n % d
    IN  IF 2 * r < d THEN q
        ELSE IF 2 * r > d THEN q + 1
        ELSE IF q % 2 = 0 THEN q ELSE q + 1
\* f"{x:.2f}": the number of hundredths shown.
Fmt2(x) == RoundHalfEven(100 * x.num, x.den)
RECURSIVE SumSeq(_)
SumSeq(s) == IF Len(s) = 0 THEN 0 ELSE s[1] + SumSeq(Tail(s))
\* statistics.mean
mean(times) == Rat(SumSeq(times), Len(times))

NA == [text |-> "N/A"]
ERROR == [text |-> "ERROR"]
Shown(hundredths, suffix) == [text |-> suffix, hundredths |-> hundredths]

format_duration(ms) ==
    IF ms.num < ms.den THEN Shown(Fmt2(Rat(ms.num * 1000, ms.den)), " us")
    ELSE IF ms.num < 1000 * ms.den THEN Shown(Fmt2(ms), " ms")
    ELSE Shown(Fmt2(Rat(ms.num, ms.den * 1000)), " s")

\* (mutant of format_speedup: the larger duration over the smaller one)
format_speedup_SlowerOverFaster(go_time, other_time) ==
    IF go_time.num = 0 THEN NA
    ELSE IF other_time.num * go_time.den >= go_time.num * other_time.den
    THEN Shown(Fmt2(Rat(other_time.num * go_time.den, other_time.den * go_time.num)), "x")
    ELSE Shown(Fmt2(Rat(go_time.num * other_time.den, go_time.den * other_time.num)), "x")
\* speedup = other_time / go_time, shown as f"{speedup:.2f}x"; "N/A" when go_time == 0.
format_speedup(go_time, other_time) ==
    IF go_time.num = 0 THEN NA
    ELSE Shown(Fmt2(Rat(other_time.num * go_time.den, other_time.den * go_time.num)), "x")

\* os.path.getsize of each corpus file, and get_file_size's rendering of it.
FileBytes(f) ==
    CASE f = "xavier.ged" -> 512
      [] f = "tree1.ged" -> 10240
      [] f = "gracis.ged" -> 204800
      [] f = "pres2020.ged" -> 1153434
      [] OTHER -> 499712
get_file_size(f) ==
    LET size == FileBytes(f)
    IN  IF size < 1024 THEN [n |-> size, unit |-> "B"]
        ELSE IF size < 1024 * 1024 THEN [n |-> RoundHalfEven(10 * size, 1024), unit |-> "KB"]
        ELSE [n |-> RoundHalfEven(10 * size, 1024 * 1024), unit |-> "MB"]

\* ---------------------------------------------------------- the state
VARIABLES
    script,           \* which of the two programs runs: "python" or "php"
    pc,               \* main's position
    exit_how,         \* "running", or how the process ended
    on_disk,          \* the candidate files that exist under TESTDATA_DIR
    tmp,              \* the scratch files that exist under /tmp
    php_available,    \* main's php_available
    available_files,  \* main's available_files (file names, in order)
    printed,          \* main's warnings, errors, progress and report lines, as events
    results,          \* main's results: the Run Records
    i,                \* index in available_files of the file under test
    python_result,    \* main's python_result / go_result / php_result
    go_result,
    php_result,
    call,             \* the runner invocation in progress
    invoked           \* every runner invocation so far: <<implementation, file>>

vars == <<script, pc, exit_how, on_disk, tmp, php_available, available_files, printed,
          results, i, python_result, go_result, php_result, call, invoked>>

Unset == [unset |-> TRUE]
NoCall == [impl |-> "none"]
NotSpawned == [kind |-> "not_spawned"]
Files == {GEDCOM_FILES[k] : k \in 1..Len(GEDCOM_FILES)}

InitWith(maxOnDisk) ==
    /\ script \in {"python", "php"}
    /\ pc = IF script = "python" THEN "import" ELSE "preflight"
    /\ exit_how = "running"
    /\ on_disk \in {S \in SUBSET Files : Cardinality(S) <= maxOnDisk}
    /\ tmp = {}
    /\ php_available = FALSE
    /\ available_files = << >>
    /\ printed = << >>
    /\ results = << >>
    /\ i = 1
    /\ python_result = Unset
    /\ go_result = Unset
    /\ php_result = Unset
    /\ call = NoCall
    /\ invoked = << >>

\* The process ends: sys.exit(1), an uncaught exception, or main returning.
Ends(how) ==
    /\ pc' = "exited"
    /\ exit_how' = how
Goes(next) ==
    /\ pc' = next
    /\ exit_how' = exit_how
Say(events) == printed' = printed \o events

\* ------------------------------------------- startup: import, preflight
\* parser_benchmark.py imports python-gedcom at module level, before main().
ImportGedcom ==
    /\ pc = "import"
    /\ \E importable \in BOOLEAN :
          IF importable
          THEN Goes("build") /\ UNCHANGED printed
          ELSE Ends("sys.exit(1)") /\ Say(<<[ev |-> "import_failed"]>>)
    /\ UNCHANGED <<script, on_disk, tmp, php_available, available_files, results, i,
                   python_result, go_result, php_result, call, invoked>>

\* What `php --version` yields: a version, output that does not parse, or no php.
PhpProbes ==
    { [kind |-> "version", major |-> v[1], minor |-> v[2]] :
          v \in {<<7, 4>>, <<8, 2>>, <<8, 3>>, <<8, 4>>, <<9, 0>>} }
    \cup { [kind |-> "garbled", major |-> 0, minor |-> 0],
           [kind |-> "missing", major |-> 0, minor |-> 0] }

check_php_version(probe) ==
    IF probe.kind # "version" THEN [ok |-> FALSE, php_84_plus |-> FALSE]
    ELSE IF probe.major > MinPhpMajor
            \/ (probe.major = MinPhpMajor /\ probe.minor >= MinPhpMinor)
         THEN [ok |-> TRUE, php_84_plus |-> probe.minor >= MinPhpMinor + 1]
         ELSE [ok |-> FALSE, php_84_plus |-> FALSE]

CheckPhpVersion ==
    /\ pc = "preflight"
    /\ \E probe \in PhpProbes :
          LET r == check_php_version(probe)
          IN  /\ php_available' = r.ok
              /\ Say(IF r.ok THEN << >> ELSE <<[ev |-> "php_warning"]>>)
    /\ Goes("build")
    /\ UNCHANGED <<script, on_disk, tmp, available_files, results, i,
                   python_result, go_result, php_result, call, invoked>>

\* ---------------------------------------------------- Harness Builder
\* (mutant of AfterBuild: the test of build_go_parser's result dropped)
AfterBuild_Continues(built) == IF script = "php" THEN "php_setup" ELSE "filter"
\* Where main goes once build_go_parser() has returned.
AfterBuild(built) ==
    IF built THEN (IF script = "php" THEN "php_setup" ELSE "filter") ELSE "exited"

\* build_go_parser and main's test of it. The source file is written before the
\* toolchain runs; `go build` leaves the executable only when it succeeds; with no
\* `go` on the PATH subprocess.run raises.
BuildGoParser ==
    /\ pc = "build"
    /\ \E outcome \in {"built", "failed", "no_toolchain"} :
          /\ tmp' = tmp \cup {GO_PARSER_SOURCE}
                        \cup (IF outcome = "built" THEN {GO_PARSER_BINARY} ELSE {})
          /\ IF outcome = "no_toolchain"
             THEN Ends("exception") /\ UNCHANGED printed
             ELSE /\ pc' = AfterBuild(outcome = "built")
                  /\ exit_how' = IF pc' = "exited" THEN "sys.exit(1)" ELSE exit_how
                  /\ Say(IF outcome = "built" THEN << >> ELSE <<[ev |-> "build_failed"]>>)
    /\ UNCHANGED <<script, on_disk, php_available, available_files, results, i,
                   python_result, go_result, php_result, call, invoked>>

\* main of parser_benchmark_php.py: the PHP driver script and the composer install.
PhpSetup ==
    /\ pc = "php_setup"
    /\ IF ~php_available
       THEN Goes("filter") /\ UNCHANGED <<tmp, php_available, printed>>
       ELSE \E autoload \in BOOLEAN, composer \in {"installed", "failed", "missing"} :
              /\ tmp' = tmp \cup {PHP_BENCHMARK_SCRIPT}
              /\ IF autoload
                 THEN Goes("filter") /\ UNCHANGED <<php_available, printed>>
                 ELSE IF composer = "missing"
                 THEN Ends("exception") /\ UNCHANGED <<php_available, printed>>
                 ELSE /\ Goes("filter")
                      /\ php_available' = (composer = "installed")
                      /\ Say(IF composer = "installed" THEN << >>
                             ELSE <<[ev |-> "composer_failed"]>>)
    /\ UNCHANGED <<script, on_disk, available_files, results, i,
                   python_result, go_result, php_result, call, invoked>>

\* ---------------------------------------------------- corpus filtering
\* (mutant of KeepFile: insert at the front instead of append)
KeepFile_Front(available, filename) == <<filename>> \o available
\* available_files.append((filename, file_path))
KeepFile(available, filename) == Append(available, filename)

\* The loop over GEDCOM_FILES: the available files, and the warnings printed.
RECURSIVE FilterCorpus(_, _, _)
FilterCorpus(candidates, available, warned) ==
    IF Len(candidates) = 0 THEN [available |-> available, warned |-> warned]
    ELSE IF Head(candidates) \in on_disk
         THEN FilterCorpus(Tail(candidates), KeepFile(available, Head(candidates)), warned)
         ELSE FilterCorpus(Tail(candidates), available,
                           Append(warned, [ev |-> "missing", file |-> Head(candidates)]))

FindTestFiles ==
    /\ pc = "filter"
    /\ LET found == FilterCorpus(GEDCOM_FILES, << >>, << >>)
       IN  /\ available_files' = found.available
           /\ IF Len(found.available) = 0
              THEN Ends("sys.exit(1)") /\ Say(found.warned \o <<[ev |-> "no_test_files"]>>)
              ELSE Goes("loop") /\ Say(found.warned)
    /\ UNCHANGED <<script, on_disk, tmp, php_available, results, i,
                   python_result, go_result, php_result, call, invoked>>

\* ------------------------------------------------ the measurement loop
CurrentFile == available_files[i]

\* main's progress lines read result['success'], then result['duration_ms'] or
\* result['error']: a missing key (or a value that is no dict) raises.
ProgressRaises(result) ==
    \/ ~HasKey(result, "success")
    \/ result.success /\ ~HasKey(result, "duration_ms")
    \/ ~result.success /\ ~HasKey(result, "error")

ProgressLine(impl, result) ==
    [ev |-> "progress", impl |-> impl, file |-> CurrentFile, ok |-> result.success]

\* The implementation main runs first / second on each file.
FirstImpl == IF script = "python" THEN "python" ELSE "go"
SecondImpl == IF script = "python" THEN "go" ELSE "php"
\* pc at which the Go runner is called, and where main goes after it.
GoCallAt == IF script = "python" THEN "second" ELSE "loop"
AfterGo == IF script = "python" THEN "store" ELSE "second"

\* python_result = benchmark_python_parser(file_path): the call ...
CallPython(parses) ==
    /\ pc = "loop" /\ script = "python" /\ i <= Len(available_files)
    /\ \E parse \in parses :
          call' = [impl |-> "python", file |-> CurrentFile, does |-> parse]
    /\ invoked' = Append(invoked, <<"python", CurrentFile>>)
    /\ Say(<<[ev |-> "testing", file |-> CurrentFile, size |-> get_file_size(CurrentFile)],
             [ev |-> "running", impl |-> "python", file |-> CurrentFile]>>)
    /\ Goes("python_running")
    /\ UNCHANGED <<script, on_disk, tmp, php_available, available_files, results, i,
                   python_result, go_result, php_result>>

\* ... and its return. Nothing bounds parse_file: a parse that never returns
\* leaves main inside the call.
ReturnPython ==
    /\ pc = "python_running"
    /\ call.does.kind # "never"
    /\ python_result' = benchmark_python_parser(call.does)
    /\ call' = NoCall
    /\ Say(<<ProgressLine("python", python_result')>>)
    /\ Goes("second")
    /\ UNCHANGED <<script, on_disk, tmp, php_available, available_files, results, i,
                   go_result, php_result, invoked>>

\* go_result = benchmark_go_parser(file_path): the call spawns the executable
\* unless it is not on disk.
CallGo(children) ==
    /\ pc = GoCallAt /\ (script = "php" => i <= Len(available_files))
    /\ IF GO_PARSER_BINARY \in tmp
       THEN \E child \in children :
               call' = [impl |-> "go", file |-> CurrentFile, does |-> child]
       ELSE call' = [impl |-> "go", file |-> CurrentFile, does |-> NotSpawned]
    /\ invoked' = Append(invoked, <<"go", CurrentFile>>)
    /\ Say((IF script = "php"
            THEN <<[ev |-> "testing", file |-> CurrentFile, size |-> get_file_size(CurrentFile)]>>
            ELSE << >>)
           \o <<[ev |-> "running", impl |-> "go", file |-> CurrentFile]>>)
    /\ Goes("go_running")
    /\ UNCHANGED <<script, on_disk, tmp, php_available, available_files, results, i,
                   python_result, go_result, php_result>>

ReturnGo ==
    /\ pc = "go_running"
    /\ go_result' = IF call.does = NotSpawned THEN GoBinaryNotFound
                    ELSE benchmark_go_parser(call.does)
    /\ call' = NoCall
    /\ IF ProgressRaises(go_result')
       THEN Ends("exception") /\ UNCHANGED printed
       ELSE Goes(AfterGo) /\ Say(<<ProgressLine("go", go_result')>>)
    /\ UNCHANGED <<script, on_disk, tmp, php_available, available_files, results, i,
                   python_result, php_result, invoked>>

\* (mutant of RunsPhp: the availability test dropped)
RunsPhp_Always == TRUE
\* if php_available: php_result = benchmark_php_parser(file_path)
RunsPhp == php_available

CallPhp(children) ==
    /\ pc = "second" /\ script = "php" /\ RunsPhp
    /\ IF PHP_BENCHMARK_SCRIPT \in tmp
       THEN \E child \in children :
               call' = [impl |-> "php", file |-> CurrentFile, does |-> child]
       ELSE call' = [impl |-> "php", file |-> CurrentFile, does |-> NotSpawned]
    /\ invoked' = Append(invoked, <<"php", CurrentFile>>)
    /\ Say(<<[ev |-> "running", impl |-> "php", file |-> CurrentFile]>>)
    /\ Goes("php_running")
    /\ UNCHANGED <<script, on_disk, tmp, php_available, available_files, results, i,
                   python_result, go_result, php_result>>

ReturnPhp ==
    /\ pc = "php_running"
    /\ php_result' = IF call.does = NotSpawned THEN PhpScriptNotFound
                     ELSE benchmark_php_parser(call.does)
    /\ call' = NoCall
    /\ IF ProgressRaises(php_result')
       THEN Ends("exception") /\ UNCHANGED printed
       ELSE Goes("store") /\ Say(<<ProgressLine("php", php_result')>>)
    /\ UNCHANGED <<script, on_disk, tmp, php_available, available_files, results, i,
                   python_result, go_result, invoked>>

\* else: php_result = {'success': False, 'error': 'PHP 8.4+ not available'}
SkipPhp ==
    /\ pc = "second" /\ script = "php" /\ ~RunsPhp
    /\ php_result' = PhpNotAvailable
    /\ Goes("store")
    /\ UNCHANGED <<script, on_disk, tmp, php_available, available_files, printed, results, i,
                   python_result, go_result, call, invoked>>

\* The result of the implementation that is compared with Go.
OtherResult == IF script = "python" THEN python_result ELSE php_result

\* results.append({...})
RunRecord ==
    IF script = "python"
    THEN [filename |-> CurrentFile, file_size |-> get_file_size(CurrentFile),
          python |-> python_result, go |-> go_result]
    ELSE [filename |-> CurrentFile, file_size |-> get_file_size(CurrentFile),
          go |-> go_result, php |-> php_result]
\* (mutant of StoreRecord: insert at the front instead of append)
StoreRecord_Front(list, record) == <<record>> \o list
StoreRecord(list, record) == Append(list, record)
\* The for loop's step to the next file.
NextFile(k) == k + 1

\* The speedup line, the append of the Run Record, and on to the next file.
Store ==
    /\ pc = "store"
    /\ Say(IF OtherResult.success /\ go_result.success
           THEN <<[ev |-> "speedup", file |-> CurrentFile,
                   shown |-> format_speedup(Rat(go_result.duration_ms, 1),
                                            Rat(OtherResult.duration_ms, 1))]>>
           ELSE << >>)
    /\ results' = StoreRecord(results, RunRecord)
    /\ i' = NextFile(i)
    /\ Goes("loop")
    /\ UNCHANGED <<script, on_disk, tmp, php_available, available_files,
                   python_result, go_result, php_result, call, invoked>>

\* ---------------------------------------------------------- the report
\* The Run Record's key of the implementation compared with Go.
OtherKey == IF script = "python" THEN "python" ELSE "php"

\* go_times / python_times / php_times: the successful durations, in file order.
RECURSIVE TimesOf(_, _)
TimesOf(records, key) ==
    IF Len(records) = 0 THEN << >>
    ELSE (IF Head(records)[key].success THEN <<Head(records)[key].duration_ms>> ELSE << >>)
         \o TimesOf(Tail(records), key)

\* One line of the summary table.
SummaryRow(record) ==
    LET go == record.go
        other == record[OtherKey]
    IN  [ev |-> "row", file |-> record.filename, size |-> record.file_size,
         go |-> IF go.success THEN Shown(Fmt2(Rat(go.duration_ms, 1)), "") ELSE ERROR,
         other |-> IF other.success THEN Shown(Fmt2(Rat(other.duration_ms, 1)), "") ELSE ERROR,
         speedup |-> IF other.success /\ go.success
                     THEN format_speedup(Rat(go.duration_ms, 1), Rat(other.duration_ms, 1))
                     ELSE NA]

\* sorted(times), and statistics.median.
RECURSIVE Insert(_, _)
Insert(sorted, x) ==
    IF Len(sorted) = 0 THEN <<x>>
    ELSE IF x <= Head(sorted) THEN <<x>> \o sorted
    ELSE <<Head(sorted)>> \o Insert(Tail(sorted), x)
RECURSIVE Sorted(_)
Sorted(times) == IF Len(times) = 0 THEN << >> ELSE Insert(Sorted(Tail(times)), Head(times))
median(times) ==
    LET s == Sorted(times)
        n == Len(s)
    IN  IF n % 2 = 1 THEN Rat(s[(n + 1) \div 2], 1)
        ELSE Rat(s[n \div 2] + s[n \div 2 + 1], 2)

\* The AVERAGE row and the overall statistics, when they are printed.
AverageLines(go_times, other_times) ==
    IF Len(go_times) > 0 /\ Len(other_times) > 0
    THEN <<[ev |-> "average",
            go |-> Shown(Fmt2(mean(go_times)), ""),
            other |-> Shown(Fmt2(mean(other_times)), ""),
            speedup |-> format_speedup(mean(go_times), mean(other_times))],
           [ev |-> "overall",
            go |-> format_duration(mean(go_times)),
            other |-> format_duration(mean(other_times)),
            speedup |-> format_speedup(mean(go_times), mean(other_times))]>>
         \o (IF Len(go_times) > 1 /\ Len(other_times) > 1
             THEN <<[ev |-> "median",
                     go |-> format_duration(median(go_times)),
                     other |-> format_duration(median(other_times)),
                     speedup |-> format_speedup(median(go_times), median(other_times))]>>
             ELSE << >>)
    ELSE IF script = "php" /\ Len(go_times) > 0
    THEN <<[ev |-> "average_go_only", go |-> Shown(Fmt2(mean(go_times)), "")]>>
    ELSE << >>

\* The detailed section reads result['families'] (and, for Python,
\* result['total_elements']) whenever 'individuals' is a key: KeyError otherwise.
DetailRaises(result, isPython) ==
    /\ result.success
    /\ HasKey(result, "individuals")
    /\ \/ ~HasKey(result, "families")
       \/ isPython /\ ~HasKey(result, "total_elements")

\* The detail lines printed before the first one that raises, and whether one raises.
RECURSIVE DetailLines(_)
DetailLines(records) ==
    IF Len(records) = 0 THEN [lines |-> << >>, raised |-> FALSE]
    ELSE LET r == Head(records)
             line(impl) == [ev |-> "detail", file |-> r.filename, impl |-> impl,
                            ok |-> r[impl].success]
             rest == DetailLines(Tail(records))
         IN  IF DetailRaises(r[FirstImpl], FirstImpl = "python")
             THEN [lines |-> << >>, raised |-> TRUE]
             ELSE IF DetailRaises(r[SecondImpl], FALSE)
             THEN [lines |-> <<line(FirstImpl)>>, raised |-> TRUE]
             ELSE [lines |-> <<line(FirstImpl), line(SecondImpl)>> \o rest.lines,
                   raised |-> rest.raised]

RECURSIVE SummaryRows(_)
SummaryRows(records) ==
    IF Len(records) = 0 THEN << >>
    ELSE <<SummaryRow(Head(records))>> \o SummaryRows(Tail(records))

\* The summary table, the averages and the detailed results, after the last file.
Report ==
    /\ pc = "loop" /\ i > Len(available_files)
    /\ LET detail == DetailLines(results)
       IN  /\ Say(SummaryRows(results)
                  \o AverageLines(TimesOf(results, "go"), TimesOf(results, OtherKey))
                  \o detail.lines)
           /\ IF detail.raised THEN Ends("exception") ELSE Goes("cleanup")
    /\ UNCHANGED <<script, on_disk, tmp, php_available, available_files, results, i,
                   python_result, go_result, php_result, call, invoked>>

\* The scratch files main removes at its end.
Removed == {GO_PARSER_BINARY, GO_PARSER_SOURCE, PHP_BENCHMARK_SCRIPT}

\* Cleanup: the last statements of main.
Cleanup ==
    /\ pc = "cleanup"
    /\ tmp' = tmp \ Removed
    /\ Ends("return")
    /\ UNCHANGED <<script, on_disk, php_available, available_files, printed, results, i,
                   python_result, go_result, php_result, call, invoked>>

\* ------------------------------------------------- the specifications
NextWith(children, parses) ==
    \/ ImportGedcom
    \/ CheckPhpVersion
    \/ BuildGoParser
    \/ PhpSetup
    \/ FindTestFiles
    \/ CallPython(parses)
    \/ ReturnPython
    \/ CallGo(children)
    \/ ReturnGo
    \/ CallPhp(children)
    \/ ReturnPhp
    \/ SkipPhp
    \/ Store
    \/ Report
    \/ Cleanup

Init == InitWith(MaxOnDisk)
Next == NextWith(TypicalChildren, TypicalParses)
\* Ordinary runs over up to MaxOnDisk files.
Spec == Init /\ [][Next]_vars

InitFaults == InitWith(MaxOnDiskFaults)
NextFaults == NextWith(AllChildren, AllParses)
\* Runs over up to MaxOnDiskFaults files in which every child behaviour may occur.
SpecFaults == InitFaults /\ [][NextFaults]_vars

\* ============================================================ properties
\* An 'error' value that is set: a non-empty string.
IsSet(v) == v.type = "str" /\ Len(v.text) > 0
\* `part in s` for str: part occurs as a contiguous run of s.
Contains(s, part) ==
    \E k \in 0..(Len(s) - Len(part)) : SubSeq(s, k + 1, k + Len(part)) = part
Events(kind) == {k \in 1..Len(printed) : printed[k].ev = kind}
LastPrinted(kind) == Len(printed) > 0 /\ printed[Len(printed)].ev = kind
\* The build ran and left no executable.
BuildFailed == GO_PARSER_SOURCE \in tmp /\ GO_PARSER_BINARY \notin tmp
\* main ended without reaching its last statement.
EndedEarly == pc = "exited" /\ exit_how # "return"
LoopPcs == {"loop", "python_running", "second", "go_running", "php_running", "store", "cleanup"}

\* ---- C1 ----
\* C1: whenever the process has ended after build_go_parser wrote its files, neither
\* the executable, nor its source file, nor the PHP driver script is left in /tmp.
C1_ScratchRemovedOnEveryExit ==
    pc = "exited" => tmp \cap Removed = {}

\* ---- C2 ----
\* C2: a run ends before its report is complete only because the build failed or
\* because no corpus file exists; nothing else (an unavailable implementation, a
\* failing invocation) ends it.
C2_OnlyBuildOrEmptyCorpusIsFatal ==
    EndedEarly => \/ BuildFailed
                  \/ available_files = << >> /\ LastPrinted("no_test_files")

\* ---- C3 ----
\* C3: every Result stored in a Run Record has a non-empty error when success is
\* false, no (or an empty) error when success is true, and the individuals and
\* families counts exactly when success is true.
ResultConsistent(r) ==
    /\ HasKey(r, "success")
    /\ ~r.success => HasKey(r, "error") /\ IsSet(r.error)
    /\ r.success => (HasKey(r, "error") => ~IsSet(r.error))
    /\ r.success <=> (HasKey(r, "individuals") /\ HasKey(r, "families"))
    /\ HasKey(r, "individuals") <=> HasKey(r, "families")
C3_ResultsConsistent ==
    \A k \in 1..Len(results) :
        /\ ResultConsistent(results[k].go)
        /\ ResultConsistent(results[k][OtherKey])

\* ---- C4 ----
\* The preflight warning was printed: check_php_version found PHP unavailable.
PreflightFailed == script = "php" /\ Events("php_warning") # {}
NeverRunsPhp ==
    /\ \A k \in 1..Len(invoked) : invoked[k][1] # "php"
    /\ \A k \in 1..Len(printed) :
          printed[k].ev \in {"running", "progress"} => printed[k].impl # "php"
WarnedOnce == Cardinality(Events("php_warning")) = 1

\* C4 as stated: once Preflight has marked PHP unavailable, its runner is never
\* invoked, no Run Record holds a Result for it, no summary row or detail line
\* shows it, and the warning is printed once.
C4_UnavailableLeavesNoTrace ==
    PreflightFailed =>
        /\ NeverRunsPhp
        /\ WarnedOnce
        /\ \A k \in 1..Len(results) : ~HasKey(results[k], "php")
        /\ \A k \in 1..Len(printed) : printed[k].ev = "detail" => printed[k].impl # "php"

\* C4 as amended: once Preflight has marked PHP unavailable, benchmark_php_parser is
\* never invoked and no progress line is printed for it, the warning is printed once,
\* and every Run Record holds the stand-in failed Result 'PHP 8.4+ not available',
\* which every summary row shows as ERROR with speedup N/A.
C4_UnavailableIsStoredAsPlaceholder ==
    PreflightFailed =>
        /\ NeverRunsPhp
        /\ WarnedOnce
        /\ \A k \in 1..Len(results) : results[k].php = PhpNotAvailable
        /\ \A k \in 1..Len(printed) :
              printed[k].ev = "row" => printed[k].other = ERROR /\ printed[k].speedup = NA
        /\ \A k \in 1..Len(printed) :
              printed[k].ev = "detail" /\ printed[k].impl = "php" => ~printed[k].ok
C4_Witness ==
    /\ PreflightFailed
    /\ pc = "exited" /\ exit_how = "return"
    /\ Len(results) = 2
    /\ Cardinality(Events("row")) = 2

\* ---- C5 ----
TimeoutResult == FailedResult(<<"Timeout (exceeded 5 minutes)">>)
\* An invocation is in progress whose parse takes longer than the budget.
OverBudget ==
    /\ pc \in {"python_running", "go_running", "php_running"}
    /\ call.does # NotSpawned
    /\ call.does.seconds > RunnerTimeout
\* C5: every invocation that exceeds the 300-second budget returns to main, and
\* what it returns is the Timeout Result (success false, no duration).
C5_OverBudgetReturnsTimeout ==
    OverBudget =>
        ENABLED ( \/ ReturnPython /\ python_result' = TimeoutResult
                  \/ ReturnGo /\ go_result' = TimeoutResult
                  \/ ReturnPhp /\ php_result' = TimeoutResult )

\* ---- C6 ----
\* The child exited 0 in time and its standard output does not decode.
Undecodable(child) ==
    /\ child.kind = "exit"
    /\ ~TimedOut(child)
    /\ child.returncode = 0
    /\ ~json_loads(child.stdout).ok
DecodeFailureWithSample(r, stdout) ==
    /\ ~r.success
    /\ Contains(r.error.text, JSONDecodeError(stdout))
    /\ Contains(r.error.text, Take(stdout, OutputSampleLen))
\* C6: when a subprocess runner (Go or PHP) returns for a child that exited 0 with
\* undecodable output, the Result is failed and its error holds the decoder's
\* diagnostic and the first 200 characters of the output.
C6_DecodeErrorHasSample ==
    [][ /\ pc = "go_running" /\ Undecodable(call.does)
            => DecodeFailureWithSample(go_result', call.does.stdout)
        /\ pc = "php_running" /\ Undecodable(call.does)
            => DecodeFailureWithSample(php_result', call.does.stdout) ]_vars

\* ---- C7 ----
\* The child exited in time with a non-zero code.
NonZeroExit(child) ==
    child.kind = "exit" /\ ~TimedOut(child) /\ child.returncode # 0
\* The Result a subprocess runner is returning in this step.
Returning == IF pc = "go_running" THEN go_result' ELSE php_result'
\* C7 as stated: for a child that exits non-zero the Result is failed and its error
\* is the child's standard-error text, also when that text is empty.
C7_ErrorIsStderr ==
    [][ (pc \in {"go_running", "php_running"} /\ NonZeroExit(call.does))
            => Returning = FailedResult(call.does.stderr) ]_vars
\* C7 as amended: for a child that exits non-zero the Result is failed; its error is
\* the child's standard-error text when that is non-empty and 'Unknown error' when it
\* is empty, whatever the child wrote to standard output.
C7_ErrorIsStderrOrUnknown ==
    [][ (pc \in {"go_running", "php_running"} /\ NonZeroExit(call.does))
            => /\ ~Returning.success
               /\ Len(call.does.stderr) > 0 => Returning.error = Str(call.does.stderr)
               /\ Len(call.does.stderr) = 0 => Returning.error = Str(<<"Unknown error">>) ]_vars
C7_Witness ==
    /\ script = "php" /\ pc = "store"
    /\ go_result = FailedResult(<<"panic: boom">>)
    /\ php_result = FailedResult(<<"Unknown error">>)

\* ---- C8 ----
\* C8: in a run whose build failed, or in which no candidate file is on disk, no
\* runner is ever invoked, main never enters the measurement loop, and when the
\* process has ended it has ended with a non-zero status.
C8_NoMeasurementAfterFatal ==
    (BuildFailed \/ on_disk = {}) =>
        /\ invoked = << >>
        /\ pc \notin LoopPcs
        /\ pc = "exited" => exit_how \in {"sys.exit(1)", "exception"}
C8_Witness ==
    /\ on_disk = {}
    /\ GO_PARSER_BINARY \in tmp
    /\ pc = "exited" /\ exit_how = "sys.exit(1)"
    /\ LastPrinted("no_test_files")

\* ---- C9 ----
\* The implementations main runs on every file, in the order it runs them.
ImplsRun ==
    IF script = "python" THEN <<"python", "go">>
    ELSE IF php_available THEN <<"go", "php">> ELSE <<"go">>
\* Every (file, implementation) pair once: file by file, implementations in order.
ExpectedInvocations ==
    LET n == Len(ImplsRun)
    IN  [k \in 1..(Len(available_files) * n) |->
            <<ImplsRun[((k - 1) % n) + 1], available_files[((k - 1) \div n) + 1]>>]
IsPrefix(s, t) == Len(s) <= Len(t) /\ SubSeq(t, 1, Len(s)) = s
\* The summary table has been printed (it has a row: the corpus is not empty).
Reported == Events("row") # {}
C9_Order ==
    /\ IsPrefix(invoked, ExpectedInvocations)
    /\ \A k \in 1..Len(results) : results[k].filename = available_files[k]
    /\ Len(results) * Len(ImplsRun) <= Len(invoked)
    /\ call # NoCall => call.file = available_files[Len(results) + 1]
    /\ Reported => /\ invoked = ExpectedInvocations
                   /\ Len(results) = Len(available_files)
C9_AppendOnly ==
    \/ results' = results
    \/ Len(results') = Len(results) + 1 /\ SubSeq(results', 1, Len(results)) = results
\* C9: the runner invocations are at all times a prefix of "every available file in
\* corpus order, each implementation once in the fixed order" and are all of it once
\* the report is printed; the Run Records are one per file in corpus order, each
\* appended after its file's invocations; a step changes the list only by appending.
C9_EachPairOnceInOrder ==
    []C9_Order /\ [][C9_AppendOnly]_vars
C9_Witness ==
    /\ pc = "cleanup"
    /\ Len(results) = 3
    /\ Len(invoked) = 6
    /\ results[1].go = TimeoutResult
    /\ results[2].go.success

\* ---- C10 ----
OnDisk(f) == f \in on_disk
Missing(f) == f \notin on_disk
IsMissingWarning(e) == e.ev = "missing"
\* main is past the corpus filter.
Filtered ==
    \/ pc \in LoopPcs
    \/ pc = "exited" /\ (available_files # << >> \/ Events("no_test_files") # {})
\* C10: once the corpus is filtered, available_files is GEDCOM_FILES without the
\* files missing from disk, in the candidate order, and the warnings printed are one
\* per missing candidate, in the candidate order.
C10_FilterKeepsOrder ==
    Filtered =>
        /\ available_files = SelectSeq(GEDCOM_FILES, OnDisk)
        /\ LET warned == SelectSeq(printed, IsMissingWarning)
               missing == SelectSeq(GEDCOM_FILES, Missing)
           IN  /\ Len(warned) = Len(missing)
               /\ \A k \in 1..Len(warned) : warned[k].file = missing[k]
\* Five candidates, three on disk: two warnings, three Run Records.
C10_Witness ==
    /\ Len(GEDCOM_FILES) = 5
    /\ on_disk = {"tree1.ged", "gracis.ged", "royal92.ged"}
    /\ available_files = <<"tree1.ged", "gracis.ged", "royal92.ged">>
    /\ Cardinality(Events("missing")) = 2
    /\ pc = "cleanup"
    /\ Len(results) = 3

\* ---- C11 ----
\* main is in Preflight: the version check, or the PHP driver and dependency setup.
InPreflight == pc \in {"preflight", "php_setup"}
\* C11: no step of Preflight ends the run: main goes on to the build (after the
\* version check) or to the corpus filter (after the dependency setup), and a
\* step that reports a failure leaves PHP marked unavailable.
C11_PreflightNeverAborts ==
    [][(InPreflight) =>
          /\ pc' \in {"build", "filter"}
          /\ (printed' # printed => ~php_available')]_vars

\* ---- C12 ----
\* The speedup an event shows (the progress line, a summary row, an aggregate line).
SpeedupShown(e) == IF e.ev = "speedup" THEN e.shown ELSE e.speedup
IsNA(shown) == shown.text = "N/A"
\* The pair of Results has no ratio: one of them failed, or a duration is exactly 0.
ZeroOrFailed(go, other) ==
    \/ ~go.success
    \/ ~other.success
    \/ go.duration_ms = 0
    \/ other.duration_ms = 0
AggregateEvents == {"average", "overall", "median"}
\* The two aggregate durations the event's speedup was computed from.
AggregateOf(e, times) == IF e.ev = "median" THEN median(times) ELSE mean(times)
\* C12: every speedup printed for a file whose pair of Results has a failure or a
\* zero duration is "N/A" (progress line and summary row), and every aggregate
\* speedup computed from a zero mean or median is "N/A".
C12_SpeedupNAOnZeroOrFailure ==
    /\ \A k \in 1..Len(results), j \in 1..Len(printed) :
          (/\ printed[j].ev \in {"speedup", "row"}
           /\ printed[j].file = results[k].filename
           /\ ZeroOrFailed(results[k].go, results[k][OtherKey]))
          => IsNA(SpeedupShown(printed[j]))
    /\ \A j \in 1..Len(printed) :
          (/\ printed[j].ev \in AggregateEvents
           /\ \/ AggregateOf(printed[j], TimesOf(results, "go")).num = 0
              \/ AggregateOf(printed[j], TimesOf(results, OtherKey)).num = 0)
          => IsNA(SpeedupShown(printed[j]))

\* ---- C13 ----
Abs(x) == IF x < 0 THEN -x ELSE x
\* `shown` is the quotient n/d to two decimals: "<h/100>x" with h/100 nearest to n/d.
ShowsRatio(shown, n, d) ==
    /\ ~IsNA(shown)
    /\ shown.text = "x"
    /\ 2 * Abs(shown.hundredths * d - 100 * n) <= d
\* Both implementations succeeded on the record's file, with positive durations.
BothPositive(record) ==
    /\ record.go.success /\ record[OtherKey].success
    /\ record.go.duration_ms > 0 /\ record[OtherKey].duration_ms > 0
Larger(a, b) == IF a >= b THEN a ELSE b
Smaller(a, b) == IF a >= b THEN b ELSE a
\* The speedups printed for one file: its progress line and its summary row.
PerFileSpeedups(record) ==
    {j \in 1..Len(printed) : /\ printed[j].ev \in {"speedup", "row"}
                             /\ printed[j].file = record.filename}

\* C13 as stated: the speedup printed for a file on which both implementations
\* succeeded with positive durations is the larger duration over the smaller one,
\* hence at least 1.00x.
C13_SpeedupIsSlowerOverFaster ==
    \A k \in 1..Len(results) :
        BothPositive(results[k]) =>
            \A j \in PerFileSpeedups(results[k]) :
                /\ ShowsRatio(SpeedupShown(printed[j]),
                              Larger(results[k].go.duration_ms, results[k][OtherKey].duration_ms),
                              Smaller(results[k].go.duration_ms, results[k][OtherKey].duration_ms))
                /\ SpeedupShown(printed[j]).hundredths >= 100

\* C13 as amended: that speedup is the other implementation's duration over the
\* Go duration, whichever was faster; it is below 1.00x when Go was the slower one.
C13_SpeedupIsOtherOverGo ==
    \A k \in 1..Len(results) :
        BothPositive(results[k]) =>
            /\ \E j \in PerFileSpeedups(results[k]) : printed[j].ev = "speedup"
            /\ \A j \in PerFileSpeedups(results[k]) :
                  ShowsRatio(SpeedupShown(printed[j]),
                             results[k][OtherKey].duration_ms, results[k].go.duration_ms)

\* The report shows a file on which Go was the slower implementation.
C13_Witness ==
    \E k \in 1..Len(results) :
        /\ BothPositive(results[k])
        /\ results[k].go.duration_ms > results[k][OtherKey].duration_ms
        /\ \E j \in PerFileSpeedups(results[k]) : printed[j].ev = "row"

\* ---- C14 ----
\* The successful Results of one implementation among the first n Run Records:
\* how many there are, and the sum of their durations.
RECURSIVE SuccessCount(_, _)
SuccessCount(key, n) ==
    IF n = 0 THEN 0
    ELSE SuccessCount(key, n - 1) + (IF results[n][key].success THEN 1 ELSE 0)
RECURSIVE SuccessSum(_, _)
SuccessSum(key, n) ==
    IF n = 0 THEN 0
    ELSE SuccessSum(key, n - 1)
         + (IF results[n][key].success THEN results[n][key].duration_ms ELSE 0)
\* `shown` is the mean of the implementation's successful durations, to two decimals.
ShowsMeanOf(shown, key) ==
    /\ ~IsNA(shown)
    /\ 2 * Abs(shown.hundredths * SuccessCount(key, Len(results))
               - 100 * SuccessSum(key, Len(results)))
          <= SuccessCount(key, Len(results))
\* The aggregate rows of the summary table, and the column of an implementation.
AggregateRows == {j \in 1..Len(printed) : printed[j].ev \in {"average", "average_go_only"}}
ColumnOf(key) == IF key = "go" THEN "go" ELSE "other"
\* C14: once the summary is printed, every implementation with at least one
\* successful Result has its mean duration in an aggregate row, whether or not the
\* other implementation succeeded anywhere.
C14_MeanShownPerImplementation ==
    Reported =>
        \A key \in {"go", OtherKey} :
            SuccessCount(key, Len(results)) > 0 =>
                \E j \in AggregateRows :
                    /\ ColumnOf(key) \in DOMAIN printed[j]
                    /\ ShowsMeanOf(printed[j][ColumnOf(key)], key)

\* ---- C15 ----
\* The child exited 0 in time and printed JSON that decodes, but not to a Result:
\* not an object, no 'success' key, or success true without 'duration_ms'.
WrongShape(child) ==
    /\ child.kind = "exit"
    /\ ~TimedOut(child)
    /\ child.returncode = 0
    /\ json_loads(child.stdout).ok
    /\ LET value == json_loads(child.stdout).value
       IN  \/ value = JsonArray
           \/ ~HasKey(value, "success")
           \/ value.success /\ ~HasKey(value, "duration_ms")
IsFailedResult(r) ==
    /\ HasKey(r, "success")
    /\ ~r.success
    /\ HasKey(r, "error")
    /\ IsSet(r.error)
\* C15: when a subprocess runner (Go or PHP) returns for a child that exited 0 with
\* wrong-shape JSON, what it returns is a failed Result with a non-empty error.
C15_WrongShapeIsFailedResult ==
    [][(pc \in {"go_running", "php_running"} /\ WrongShape(call.does))
            => IsFailedResult(Returning)]_vars

====
